---------------------------- MODULE Spec2Model ----------------------------
(***************************************************************************)
(* Model of the value layer of the pickled crate (src/src/value.rs):       *)
(* the HashableValue order, the Value -> HashableValue projection, the      *)
(* Shared / SharedFrozen ownership wrappers, to_string_key, the ordered     *)
(* containers, RawHashableValue and the conversions to and from it; of      *)
(* Opcode::try_from (src/src/consts.rs); and of the big-integer generators  *)
(* of the tests (src/test/arby.rs).                                         *)
(*                                                                          *)
(* Machine numbers are scaled down: i64 is a two's-complement integer of    *)
(* IntBits bits, f64 a binary float with MantBits significant bits whose    *)
(* largest finite value has exponent FloatMaxExp, BigInt an integer of a    *)
(* range that reaches past the largest finite float.  Floats are recorded   *)
(* in half-units (mag = 2 * |value|), so 1.5 is mag 3.                      *)
(***************************************************************************)
EXTENDS Integers, Sequences, FiniteSets, TLC

VARIABLES
    x, y,          \* cmp: the two HashableValues handed to Ord::cmp
    big_to_f64,    \* cmp: what BigInt::to_f64 does on overflow ("Inf" or "None")
    ord, rev,      \* cmp: cmp(x, y) and cmp(y, x) once computed ("-" before)
    val,           \* into_hashable: the Value handed to into_hashable
    hres,          \* into_hashable: its Result (NoResult before the call)
    heap,          \* Shared: address -> the Rc allocation living there
    handles,       \* Shared: wrapper value -> how many of it are live
    expect,        \* Shared: lineage -> the contents its handles should see
    last,          \* Shared: the last operation, with the outcome of an a == b
    key,           \* to_string_key: its Option (NoKey before the call)
    byte, opcode,  \* Opcode::try_from: the byte and the Result ("-" before)
    set, dict,     \* BTreeSet / BTreeMap: the stored keys / entries, in order
    ins,           \* BTreeSet / BTreeMap: the last insert and what it met
    ra, rb,        \* raw order: the two RawHashableValues compared
    alias,         \* raw order: whether rb is a clone of ra (one Rc behind both)
    rord, rrev,    \* raw order: cmp(ra, rb) and cmp(rb, ra) ("-" before)
    req,           \* raw order: the derived ra == rb ("-" before)
    rres,          \* into_raw_hashable: its Result (NoResult before the call)
    draw, sign,    \* generator: the i64 and the bool drawn
    big, hint,     \* generator: gen_bigint's and gen_hvalue's Int ("-" before)
    vb,            \* Value ==: the right operand (the left one is val)
    veq            \* Value ==: a == b and the == of the projections (NoEq before)

vars == <<x, y, big_to_f64, ord, rev, val, hres, heap, handles, expect, last,
          key, byte, opcode, set, dict, ins, ra, rb, alias, rord, rrev, req, rres,
          draw, sign, big, hint, vb, veq>>

ordVars == <<x, y, big_to_f64, ord, rev>>
hashVars == <<val, hres>>
sharedVars == <<heap, handles, expect, last>>
keyVars == <<key>>
opVars == <<byte, opcode>>
treeVars == <<set, dict, ins>>
rawVars == <<ra, rb, alias, rord, rrev, req, rres>>
genVars == <<draw, sign, big, hint>>
eqVars == <<vb, veq>>
laterVars == <<keyVars, opVars, treeVars, rawVars, genVars, eqVars>>

-----------------------------------------------------------------------------
(* Bounds of the scaled machine numbers and of the generated payloads.      *)

IntBits == 4
MantBits == 2
FloatMaxExp == 3
MaxLen == 2

RECURSIVE Pow2(_)
Pow2(k) == IF k <= 0 THEN 1 ELSE 2 * Pow2(k - 1)

RECURSIVE BitLen(_)
BitLen(n) == IF n <= 0 THEN 0 ELSE 1 + BitLen(n \div 2)

Abs(n) == IF n < 0 THEN -n ELSE n

I64Min == -Pow2(IntBits - 1)
I64Max == Pow2(IntBits - 1) - 1

\* unit in the last place of the largest finite float, and that float (value)
TopUlp == Pow2(FloatMaxExp - MantBits + 1)
FloatMax == (Pow2(MantBits) - 1) * TopUlp
FloatMaxHalf == 2 * FloatMax
BigMax == FloatMax + TopUlp

-----------------------------------------------------------------------------
(* f64 *)

FNan(neg) == [cls |-> "nan", neg |-> neg, mag |-> 0]
FInf(neg) == [cls |-> "inf", neg |-> neg, mag |-> 0]
FFin(neg, mag) == [cls |-> "fin", neg |-> neg, mag |-> mag]
FZero == FFin(FALSE, 0)

IsNan(f) == f.cls = "nan"

\* round-to-nearest, ties-to-even, of a magnitude to MantBits significant bits
RoundToMant(h) ==
    IF h < Pow2(MantBits) THEN h
    ELSE LET e == BitLen(h) - MantBits
             unit == Pow2(e)
             q == h \div unit
             r == h % unit
             up == (2 * r > unit) \/ (2 * r = unit /\ q % 2 = 1)
         IN  (IF up THEN q + 1 ELSE q) * unit

Representable(h) == RoundToMant(h) = h

\* the position of a non-NaN float on the extended real line (-0.0 = +0.0)
FloatKey(f) ==
    LET m == IF f.cls = "inf" THEN 2 * FloatMaxHalf ELSE f.mag
    IN  IF f.neg THEN -m ELSE m

IntCmp(a, b) == IF a < b THEN "Less" ELSE IF a = b THEN "Equal" ELSE "Greater"

\* f64::partial_cmp
partial_cmp(f, g) ==
    IF IsNan(f) \/ IsNan(g) THEN "None" ELSE IntCmp(FloatKey(f), FloatKey(g))

\* `i as f64` for an i64 (and for `b as i64 as f64`)
I64ToF64(i) == FFin(i < 0, RoundToMant(2 * Abs(i)))

\* `f as i64`: NaN is 0, otherwise truncate toward zero and saturate
F64ToI64(f) ==
    IF f.cls = "nan" THEN 0
    ELSE IF f.cls = "inf" THEN (IF f.neg THEN I64Min ELSE I64Max)
    ELSE LET t == f.mag \div 2
             v == IF f.neg THEN -t ELSE t
         IN  IF v < I64Min THEN I64Min ELSE IF v > I64Max THEN I64Max ELSE v

\* BigInt::to_f64: the nearest float; past the largest finite float either
\* Some(infinity) or None, by the num-bigint release linked in
BigIntToF64(n, mode) ==
    LET r == RoundToMant(2 * Abs(n))
    IN  IF r > FloatMaxHalf
        THEN (IF mode = "None" THEN [some |-> FALSE, f |-> FZero]
                               ELSE [some |-> TRUE, f |-> FInf(n < 0)])
        ELSE [some |-> TRUE, f |-> FFin(n < 0, r)]

BoolToI64(b) == IF b THEN 1 ELSE 0

float_ord(f, g) ==
    LET o == partial_cmp(f, g)
    IN  IF o = "None" THEN "Less" ELSE o

float_bigint_ord(bi, g, mode) ==
    LET c == BigIntToF64(bi, mode)
    IN  IF c.some THEN float_ord(c.f, g)
        ELSE IF bi > 0 THEN "Greater" ELSE "Less"

-----------------------------------------------------------------------------
(* HashableValue.  One record shape for every variant: b is the Bool       *)
(* payload, i the I64 or Int payload, f the F64 payload, bytes the Bytes   *)
(* or String payload, items the Tuple elements or the FrozenSet elements   *)
(* in iteration order.  ty tells the enum: a Value and a HashableValue of  *)
(* the same variant name are different values.                             *)

Rec(ty, tag, b, i, f, bytes, items) ==
    [ty |-> ty, tag |-> tag, b |-> b, i |-> i, f |-> f, bytes |-> bytes,
     items |-> items]

HV(tag, b, i, f, bytes, items) == Rec("HashableValue", tag, b, i, f, bytes, items)

HNone == HV("None", FALSE, 0, FZero, <<>>, <<>>)
HBool(b) == HV("Bool", b, 0, FZero, <<>>, <<>>)
HI64(i) == HV("I64", FALSE, i, FZero, <<>>, <<>>)
HInt(n) == HV("Int", FALSE, n, FZero, <<>>, <<>>)
HF64(f) == HV("F64", FALSE, 0, f, <<>>, <<>>)
HBytes(s) == HV("Bytes", FALSE, 0, FZero, s, <<>>)
HString(s) == HV("String", FALSE, 0, FZero, s, <<>>)
HTuple(t) == HV("Tuple", FALSE, 0, FZero, <<>>, t)
HFrozenSet(t) == HV("FrozenSet", FALSE, 0, FZero, <<>>, t)

\* Ord for Vec<u8> and for String: lexicographic
RECURSIVE BytesCmp(_, _)
BytesCmp(s, t) ==
    IF s = <<>> THEN (IF t = <<>> THEN "Equal" ELSE "Less")
    ELSE IF t = <<>> THEN "Greater"
    ELSE IF Head(s) # Head(t) THEN IntCmp(Head(s), Head(t))
    ELSE BytesCmp(Tail(s), Tail(t))

cmp_None(other) == IF other.tag = "None" THEN "Equal" ELSE "Less"

cmp_Bool(b, other) ==
    CASE other.tag = "None" -> "Greater"
      [] other.tag = "Bool" -> IntCmp(BoolToI64(b), BoolToI64(other.b))
      [] other.tag = "I64" -> IntCmp(BoolToI64(b), other.i)
      [] other.tag = "Int" -> IntCmp(BoolToI64(b), other.i)
      [] other.tag = "F64" -> float_ord(I64ToF64(BoolToI64(b)), other.f)
      [] OTHER -> "Less"

cmp_I64(i, other) ==
    CASE other.tag = "None" -> "Greater"
      [] other.tag = "Bool" -> IntCmp(i, BoolToI64(other.b))
      [] other.tag = "I64" -> IntCmp(i, other.i)
      [] other.tag = "Int" -> IntCmp(i, other.i)
      [] other.tag = "F64" -> float_ord(I64ToF64(i), other.f)
      [] OTHER -> "Less"

cmp_Int(bi, other, mode) ==
    CASE other.tag = "None" -> "Greater"
      [] other.tag = "Bool" -> IntCmp(bi, BoolToI64(other.b))
      [] other.tag = "I64" -> IntCmp(bi, other.i)
      [] other.tag = "Int" -> IntCmp(bi, other.i)
      [] other.tag = "F64" -> float_bigint_ord(bi, other.f, mode)
      [] OTHER -> "Less"

cmp_F64(f, other) ==
    CASE other.tag = "None" -> "Greater"
      [] other.tag = "Bool" -> float_ord(f, I64ToF64(BoolToI64(other.b)))
      [] other.tag = "I64" -> float_ord(f, I64ToF64(other.i))
      [] other.tag = "Int" -> IntCmp(F64ToI64(f), other.i)
      [] other.tag = "F64" -> float_ord(f, other.f)
      [] OTHER -> "Less"

cmp_Bytes(bs, other) ==
    CASE other.tag \in {"String", "FrozenSet", "Tuple"} -> "Less"
      [] other.tag = "Bytes" -> BytesCmp(bs, other.bytes)
      [] OTHER -> "Greater"

cmp_String(s, other) ==
    CASE other.tag \in {"FrozenSet", "Tuple"} -> "Less"
      [] other.tag = "String" -> BytesCmp(s, other.bytes)
      [] OTHER -> "Greater"

\* impl Ord for HashableValue, with the Ord of Vec<HashableValue> and of
\* BTreeSet<HashableValue> (both lexicographic over the iteration order)
RECURSIVE cmp_with(_, _, _)
RECURSIVE SeqCmp(_, _, _)
SeqCmp(s, t, mode) ==
    IF s = <<>> THEN (IF t = <<>> THEN "Equal" ELSE "Less")
    ELSE IF t = <<>> THEN "Greater"
    ELSE LET o == cmp_with(Head(s), Head(t), mode)
         IN  IF o # "Equal" THEN o ELSE SeqCmp(Tail(s), Tail(t), mode)

\* a FrozenSet arm that ranks Tuple below FrozenSet, as the declaration order
\* of the variants would
cmp_FrozenSet_decl_order(s, other, mode) ==
    CASE other.tag = "Tuple" -> "Greater"
      [] other.tag = "FrozenSet" -> SeqCmp(s, other.items, mode)
      [] OTHER -> "Greater"

cmp_FrozenSet(s, other, mode) ==
    CASE other.tag = "Tuple" -> "Less"
      [] other.tag = "FrozenSet" -> SeqCmp(s, other.items, mode)
      [] OTHER -> "Greater"

cmp_Tuple(t, other, mode) ==
    CASE other.tag = "Tuple" -> SeqCmp(t, other.items, mode)
      [] OTHER -> "Greater"

cmp_with(self, other, mode) ==
    CASE self.tag = "None" -> cmp_None(other)
      [] self.tag = "Bool" -> cmp_Bool(self.b, other)
      [] self.tag = "I64" -> cmp_I64(self.i, other)
      [] self.tag = "Int" -> cmp_Int(self.i, other, mode)
      [] self.tag = "F64" -> cmp_F64(self.f, other)
      [] self.tag = "Bytes" -> cmp_Bytes(self.bytes, other)
      [] self.tag = "String" -> cmp_String(self.bytes, other)
      [] self.tag = "FrozenSet" -> cmp_FrozenSet(self.items, other, mode)
      [] self.tag = "Tuple" -> cmp_Tuple(self.items, other, mode)

\* Ord::cmp as the linked build computes it
cmp(a, b) == cmp_with(a, b, big_to_f64)

\* PartialEq for HashableValue
hv_eq(a, b) == cmp(a, b) = "Equal"

\* BTreeSet::insert on a set held in one node: scan the keys in order, stop
\* at the first key the element is not Greater than
RECURSIVE btree_insert(_, _)
btree_insert(keys, e) ==
    IF keys = <<>> THEN <<e>>
    ELSE LET o == cmp_with(e, Head(keys), "Inf")
         IN  IF o = "Greater" THEN <<Head(keys)>> \o btree_insert(Tail(keys), e)
             ELSE IF o = "Equal" THEN keys
             ELSE <<e>> \o keys

-----------------------------------------------------------------------------
(* The values the order is exercised on.                                    *)

RECURSIVE SeqsUpTo(_, _)
SeqsUpTo(S, n) ==
    IF n = 0 THEN {<<>>}
    ELSE LET shorter == SeqsUpTo(S, n - 1)
         IN  shorter \cup {Append(s, e) : s \in shorter, e \in S}

RECURSIVE InsertAll(_, _)
InsertAll(keys, s) ==
    IF s = <<>> THEN keys ELSE InsertAll(btree_insert(keys, Head(s)), Tail(s))

Floats ==
    {FNan(FALSE), FNan(TRUE), FInf(FALSE), FInf(TRUE)}
    \cup {FFin(neg, h) : neg \in BOOLEAN,
                         h \in {m \in 0..FloatMaxHalf : Representable(m)}}

ByteSeqs == SeqsUpTo({0, 1}, MaxLen)

ElemValues == {HNone, HI64(1), HF64(FNan(FALSE))}

ElemSeqs == SeqsUpTo(ElemValues, MaxLen)

NumericValues ==
    {HBool(b) : b \in BOOLEAN}
    \cup {HI64(i) : i \in I64Min..I64Max}
    \cup {HInt(n) : n \in -BigMax..BigMax}
    \cup {HF64(f) : f \in Floats}

HValues ==
    {HNone} \cup NumericValues
    \cup {HBytes(s) : s \in ByteSeqs}
    \cup {HString(s) : s \in ByteSeqs}
    \cup {HTuple(t) : t \in ElemSeqs}
    \cup {HFrozenSet(InsertAll(<<>>, t)) : t \in ElemSeqs}

Orderings == {"Less", "Equal", "Greater"}

-----------------------------------------------------------------------------
(* Ord::cmp on a pair of values.                                            *)

InitOrd ==
    /\ x \in HValues
    /\ y \in HValues
    /\ big_to_f64 \in {"Inf", "None"}
    /\ ord = "-"
    /\ rev = "-"
    /\ val = [tag |-> "-"]
    /\ hres = [ok |-> FALSE]
    /\ heap = <<>>
    /\ handles = <<>>
    /\ expect = <<>>
    /\ last = [op |-> "-"]
    /\ key = [some |-> FALSE]
    /\ byte = 0
    /\ opcode = "-"
    /\ set = <<>>
    /\ dict = <<>>
    /\ ins = [op |-> "-"]
    /\ ra = [tag |-> "-"]
    /\ rb = [tag |-> "-"]
    /\ alias = FALSE
    /\ rord = "-"
    /\ rrev = "-"
    /\ req = "-"
    /\ rres = [ok |-> FALSE]
    /\ draw = 0
    /\ sign = FALSE
    /\ big = "-"
    /\ hint = "-"
    /\ vb = [tag |-> "-"]
    /\ veq = [called |-> FALSE]

Compare ==
    /\ ord = "-"
    /\ ord' = cmp(x, y)
    /\ rev' = cmp(y, x)
    /\ UNCHANGED <<x, y, big_to_f64>>

-----------------------------------------------------------------------------
(* Value and Value::into_hashable.                                          *)

VV(tag, b, i, f, bytes, items) == Rec("Value", tag, b, i, f, bytes, items)

VNone == VV("None", FALSE, 0, FZero, <<>>, <<>>)
VBool(b) == VV("Bool", b, 0, FZero, <<>>, <<>>)
VI64(i) == VV("I64", FALSE, i, FZero, <<>>, <<>>)
VInt(n) == VV("Int", FALSE, n, FZero, <<>>, <<>>)
VF64(f) == VV("F64", FALSE, 0, f, <<>>, <<>>)
VBytes(s) == VV("Bytes", FALSE, 0, FZero, s, <<>>)
VString(s) == VV("String", FALSE, 0, FZero, s, <<>>)
\* List and Tuple hold Values, Set and FrozenSet HashableValues, Dict entries
VList(t) == VV("List", FALSE, 0, FZero, <<>>, t)
VTuple(t) == VV("Tuple", FALSE, 0, FZero, <<>>, t)
VSet(t) == VV("Set", FALSE, 0, FZero, <<>>, t)
VFrozenSet(t) == VV("FrozenSet", FALSE, 0, FZero, <<>>, t)
VDict(t) == VV("Dict", FALSE, 0, FZero, <<>>, t)

Ok(v) == [ok |-> TRUE, v |-> v, err |-> ""]
Err(e) == [ok |-> FALSE, v |-> HNone, err |-> e]
\* no call made yet
NoResult == [ok |-> FALSE, v |-> HNone, err |-> "-"]

RECURSIVE into_hashable(_)
RECURSIVE CollectHashable(_)
\* .map(Value::into_hashable).collect::<Result<Vec<_>, _>>(): the elements
\* in order, or the first error
CollectHashable(values) ==
    IF values = <<>> THEN Ok(<<>>)
    ELSE LET h == into_hashable(Head(values))
         IN  IF ~h.ok THEN h
             ELSE LET rest == CollectHashable(Tail(values))
                  IN  IF ~rest.ok THEN rest ELSE Ok(<<h.v>> \o rest.v)

\* a conversion that drops the elements that do not convert
RECURSIVE values_to_hashable_lossy(_)
values_to_hashable_lossy(values) ==
    IF values = <<>> THEN Ok(<<>>)
    ELSE LET h == into_hashable(Head(values))
             rest == values_to_hashable_lossy(Tail(values))
         IN  IF h.ok THEN Ok(<<h.v>> \o rest.v) ELSE rest

values_to_hashable(values) == CollectHashable(values)

into_hashable(self) ==
    CASE self.tag = "None" -> Ok(HNone)
      [] self.tag = "Bool" -> Ok(HBool(self.b))
      [] self.tag = "I64" -> Ok(HI64(self.i))
      [] self.tag = "Int" -> Ok(HInt(self.i))
      [] self.tag = "F64" -> Ok(HF64(self.f))
      [] self.tag = "Bytes" -> Ok(HBytes(self.bytes))
      [] self.tag = "String" -> Ok(HString(self.bytes))
      [] self.tag = "FrozenSet" -> Ok(HFrozenSet(self.items))
      [] self.tag = "Tuple" ->
            LET r == values_to_hashable(self.items)
            IN  IF r.ok THEN Ok(HTuple(r.v)) ELSE r
      [] OTHER -> Err("ValueNotHashable")

MaxDepth == 2

RECURSIVE Depth(_)
RECURSIVE MaxDepthOf(_)
MaxDepthOf(s) ==
    IF s = <<>> THEN 0
    ELSE LET d == Depth(Head(s))
             r == MaxDepthOf(Tail(s))
         IN  IF d > r THEN d ELSE r
\* levels of non-empty List / Tuple nesting
Depth(v) ==
    IF v.tag \in {"List", "Tuple"} /\ v.items # <<>>
    THEN 1 + MaxDepthOf(v.items) ELSE 0

BaseValues ==
    {VNone, VBool(TRUE), VI64(1), VInt(BigMax), VF64(FNan(FALSE)),
     VBytes(<<1>>), VString(<<0>>), VTuple(<<>>), VList(<<>>),
     VFrozenSet(<<>>), VFrozenSet(<<HNone>>),
     VSet(<<>>), VSet(<<HI64(1)>>),
     VDict(<<>>), VDict(<<[k |-> HNone, v |-> VNone]>>)}

PadValues == {VNone, VList(<<>>)}

Pads == SeqsUpTo(PadValues, 1)

InitHash ==
    /\ val \in BaseValues
    /\ hres = NoResult
    /\ x = [tag |-> "-"]
    /\ y = [tag |-> "-"]
    /\ big_to_f64 = "Inf"
    /\ ord = "-"
    /\ rev = "-"
    /\ heap = <<>>
    /\ handles = <<>>
    /\ expect = <<>>
    /\ last = [op |-> "-"]
    /\ key = [some |-> FALSE]
    /\ byte = 0
    /\ opcode = "-"
    /\ set = <<>>
    /\ dict = <<>>
    /\ ins = [op |-> "-"]
    /\ ra = [tag |-> "-"]
    /\ rb = [tag |-> "-"]
    /\ alias = FALSE
    /\ rord = "-"
    /\ rrev = "-"
    /\ req = "-"
    /\ rres = [ok |-> FALSE]
    /\ draw = 0
    /\ sign = FALSE
    /\ big = "-"
    /\ hint = "-"
    /\ vb = [tag |-> "-"]
    /\ veq = [called |-> FALSE]

WrapTuple ==
    /\ hres = NoResult
    /\ Depth(val) < MaxDepth
    /\ \E pre \in Pads, post \in Pads : val' = VTuple(pre \o <<val>> \o post)
    /\ UNCHANGED hres

WrapList ==
    /\ hres = NoResult
    /\ Depth(val) < MaxDepth
    /\ \E pre \in Pads, post \in Pads : val' = VList(pre \o <<val>> \o post)
    /\ UNCHANGED hres

IntoHashable ==
    /\ hres = NoResult
    /\ hres' = into_hashable(val)
    /\ UNCHANGED val

-----------------------------------------------------------------------------
(* Shared<T> = Rc<RefCell<T>> and SharedFrozen<T> = Rc<T>, for T = a Vec of  *)
(* Values.  heap maps an address to the Rc allocation living there; handles  *)
(* counts the live wrapper values, a wrapper being [kind, alloc, lin].  The  *)
(* lineage lin of a wrapper is what one call of new() started and clone()    *)
(* spread, named by the address new() was given; expect follows, beside the  *)
(* heap, what the wrappers of a lineage should read.                         *)

MaxHandles == 3
MaxAllocs == 2

Addrs == 1..MaxAllocs

\* the payloads written: an empty Vec, one comparing equal to itself and one
\* that does not (a NaN is not equal to itself)
Payloads == {<<>>, <<VI64(1)>>, <<VF64(FNan(FALSE))>>}

HandleVals == [kind : {"Shared", "Frozen"}, alloc : Addrs, lin : Addrs]

NoAlloc == [live |-> FALSE, kind |-> "-", cell |-> <<>>, strong |-> 0]
NoExpect == [live |-> FALSE, cell |-> <<>>, src |-> 0]
\* what the last operation was: "-", "mutate" (through a wrapper of lineage
\* lin) or "eq" (with the operands' relation and the result r)
\* or "into_raw" (into_raw_or_cloned on the wrapper of lineage lin at alloc,
\* whose count was strong and contents were `was`; value is what it returned)
NoOp == [op |-> "-", lin |-> 0, kind |-> "-", same |-> FALSE, peq |-> FALSE, r |-> FALSE,
         alloc |-> 0, strong |-> 0, was |-> <<>>, value |-> <<>>, panic |-> FALSE]

\* the number of live wrappers: each holds one strong count
RECURSIVE StrongUpTo(_, _)
StrongUpTo(hp, a) == IF a = 0 THEN 0 ELSE hp[a].strong + StrongUpTo(hp, a - 1)

NumHandles == StrongUpTo(heap, MaxAllocs)
FreeAddrs(hp) == {a \in Addrs : ~hp[a].live}
Live == {v \in HandleVals : handles[v] > 0}
LiveOf(kind) == {v \in Live : v.kind = kind}
Take(hs, v) == [hs EXCEPT ![v] = @ - 1]
Give(hs, v) == [hs EXCEPT ![v] = @ + 1]

\* f64 == and the derived PartialEq of Value, on the variants that hold no
\* wrapper of Values
float_eq(f, g) == partial_cmp(f, g) = "Equal"

\* the derived PartialEq of Value for operands that share no Rc: the variants
\* are compared first, then the payloads (Vec<Value> element by element with
\* this ==, BTreeSet / BTreeMap keys with HashableValue's ==)
RECURSIVE value_eq(_, _)
value_eq(a, b) ==
    /\ a.tag = b.tag
    /\ CASE a.tag = "None" -> TRUE
         [] a.tag = "Bool" -> a.b = b.b
         [] a.tag \in {"I64", "Int"} -> a.i = b.i
         [] a.tag = "F64" -> float_eq(a.f, b.f)
         [] a.tag \in {"Bytes", "String"} -> a.bytes = b.bytes
         [] a.tag \in {"List", "Tuple"} ->
               /\ Len(a.items) = Len(b.items)
               /\ \A k \in 1..Len(a.items) : value_eq(a.items[k], b.items[k])
         [] a.tag \in {"Set", "FrozenSet"} ->
               /\ Len(a.items) = Len(b.items)
               /\ \A k \in 1..Len(a.items) : hv_eq(a.items[k], b.items[k])
         [] a.tag = "Dict" ->
               /\ Len(a.items) = Len(b.items)
               /\ \A k \in 1..Len(a.items) :
                      /\ hv_eq(a.items[k].k, b.items[k].k)
                      /\ value_eq(a.items[k].v, b.items[k].v)

\* PartialEq of Vec<Value>
payload_eq(p, q) ==
    /\ Len(p) = Len(q)
    /\ \A k \in 1..Len(p) : value_eq(p[k], q[k])

\* Rc::new, the allocator placing it at address a
rc_new(hp, a, kind, value) ==
    [hp EXCEPT ![a] = [live |-> TRUE, kind |-> kind, cell |-> value, strong |-> 1]]

\* a clone that copies the contents into an allocation of its own
rc_clone_deep(hp, a) ==
    IF FreeAddrs(hp) = {} THEN [heap |-> [hp EXCEPT ![a].strong = @ + 1], alloc |-> a]
    ELSE LET c == CHOOSE m \in FreeAddrs(hp) : \A k \in FreeAddrs(hp) : m <= k
         IN  [heap |-> rc_new(hp, c, hp[a].kind, hp[a].cell), alloc |-> c]

\* Rc::clone, the derived Clone of both wrappers
rc_clone(hp, a) == [heap |-> [hp EXCEPT ![a].strong = @ + 1], alloc |-> a]

\* dropping one Rc
rc_drop(hp, a) ==
    IF hp[a].strong = 1 THEN [hp EXCEPT ![a] = NoAlloc]
    ELSE [hp EXCEPT ![a].strong = @ - 1]

\* Shared::inner / SharedFrozen::inner: the contents behind a wrapper
inner(v) == heap[v.alloc].cell

\* a token taken from the Vec's buffer instead: every empty Vec has the same
provenance_of_payload(v) == IF inner(v) = <<>> THEN 0 ELSE v.alloc

\* Shared::provenance / SharedFrozen::provenance: the address of the Rc's
\* allocation, Rc::as_ptr(&self.0).expose_provenance()
provenance(v) == v.alloc

\* an extraction that takes the payload out of the RefCell (mem::take) when
\* there are other holders, leaving them an empty Vec
shared_into_raw_or_cloned_take(hp, a) ==
    IF hp[a].strong = 1
    THEN [heap |-> [hp EXCEPT ![a] = NoAlloc], value |-> hp[a].cell, panic |-> FALSE]
    ELSE [heap |-> [rc_drop(hp, a) EXCEPT ![a].cell = <<>>], value |-> hp[a].cell,
          panic |-> FALSE]

\* into_raw_or_cloned, consuming the Rc at a: the payload moved out of a sole
\* holder or cloned beside the other holders.  Rc::into_inner gives None, and
\* the code panics, exactly when the count it reads is not 1.
shared_into_raw_or_cloned(hp, a) ==
    IF hp[a].strong = 1
    THEN (IF hp[a].strong = 1
          THEN [heap |-> [hp EXCEPT ![a] = NoAlloc], value |-> hp[a].cell,
                panic |-> FALSE]
          ELSE [heap |-> hp, value |-> <<>>, panic |-> TRUE])
    ELSE [heap |-> rc_drop(hp, a), value |-> hp[a].cell, panic |-> FALSE]

frozen_into_raw_or_cloned(hp, a) ==
    IF hp[a].strong = 1
    THEN (IF hp[a].strong = 1
          THEN [heap |-> [hp EXCEPT ![a] = NoAlloc], value |-> hp[a].cell,
                panic |-> FALSE]
          ELSE [heap |-> hp, value |-> <<>>, panic |-> TRUE])
    ELSE [heap |-> rc_drop(hp, a), value |-> hp[a].cell, panic |-> FALSE]

\* a conversion that keeps the Rc and only retypes the wrapper
frozen_from_shared_in_place(hp, a, c) == [heap |-> hp, alloc |-> a]

\* From<Shared<T>> for SharedFrozen<T>: SharedFrozen::new(value.into_raw_or_cloned()),
\* the new Rc placed at c
frozen_from_shared(hp, a, c) ==
    LET r == shared_into_raw_or_cloned(hp, a)
    IN  [heap |-> rc_new(r.heap, c, "Frozen", r.value), alloc |-> c]

\* From<SharedFrozen<T>> for Shared<T>: Shared::new(value.into_raw_or_cloned())
shared_from_frozen(hp, a, c) ==
    LET r == frozen_into_raw_or_cloned(hp, a)
    IN  [heap |-> rc_new(r.heap, c, "Shared", r.value), alloc |-> c]

\* an == that always compares the contents
shared_eq_structural(hp, a, b) == payload_eq(hp[a].cell, hp[b].cell)

\* PartialEq of Shared<T>: Rc::ptr_eq, else the contents of the two RefCells
shared_eq(hp, a, b) ==
    IF a = b THEN TRUE
    ELSE payload_eq(hp[a].cell, hp[b].cell)

\* PartialEq of SharedFrozen<T>
frozen_eq(hp, a, b) ==
    IF a = b THEN TRUE
    ELSE payload_eq(hp[a].cell, hp[b].cell)

\* the lineages no wrapper of hs belongs to any more are forgotten
Sweep(hs, ex) ==
    LET held(l) == \E v \in HandleVals : hs[v] > 0 /\ v.lin = l
    IN  [l \in Addrs |->
            IF ~held(l) THEN NoExpect
            ELSE IF ex[l].src # 0 /\ ~held(ex[l].src) THEN [ex[l] EXCEPT !.src = 0]
            ELSE ex[l]]

InitShared ==
    /\ heap = [a \in Addrs |-> NoAlloc]
    /\ handles = [v \in HandleVals |-> 0]
    /\ expect = [l \in Addrs |-> NoExpect]
    /\ last = NoOp
    /\ x = [tag |-> "-"]
    /\ y = [tag |-> "-"]
    /\ big_to_f64 = "Inf"
    /\ ord = "-"
    /\ rev = "-"
    /\ val = [tag |-> "-"]
    /\ hres = [ok |-> FALSE]
    /\ key = [some |-> FALSE]
    /\ byte = 0
    /\ opcode = "-"
    /\ set = <<>>
    /\ dict = <<>>
    /\ ins = [op |-> "-"]
    /\ ra = [tag |-> "-"]
    /\ rb = [tag |-> "-"]
    /\ alias = FALSE
    /\ rord = "-"
    /\ rrev = "-"
    /\ req = "-"
    /\ rres = [ok |-> FALSE]
    /\ draw = 0
    /\ sign = FALSE
    /\ big = "-"
    /\ hint = "-"
    /\ vb = [tag |-> "-"]
    /\ veq = [called |-> FALSE]

\* Shared::new(value) / SharedFrozen::new(value)
New(kind, value) ==
    /\ NumHandles < MaxHandles
    /\ \E a \in FreeAddrs(heap) :
          /\ heap' = rc_new(heap, a, kind, value)
          /\ handles' = Give(handles, [kind |-> kind, alloc |-> a, lin |-> a])
          /\ expect' = [expect EXCEPT ![a] =
                [live |-> TRUE, cell |-> value, src |-> 0]]
    /\ last' = NoOp

SharedNew == \E value \in Payloads : New("Shared", value)

FrozenNew == \E value \in Payloads : New("Frozen", value)

\* v.clone()
Clone ==
    /\ NumHandles < MaxHandles
    /\ \E v \in Live :
          LET r == rc_clone(heap, v.alloc)
          IN  /\ heap' = r.heap
              /\ handles' = Give(handles, [v EXCEPT !.alloc = r.alloc])
    /\ UNCHANGED expect
    /\ last' = NoOp

\* *v.inner_mut() = p: a write through the RefMut, dropped with the statement
Mutate ==
    /\ \E v \in LiveOf("Shared"), p \in Payloads :
          /\ p # inner(v)
          /\ heap' = [heap EXCEPT ![v.alloc].cell = p]
          /\ expect' = [expect EXCEPT ![v.lin].cell = p]
          /\ last' = [NoOp EXCEPT !.op = "mutate", !.lin = v.lin]
    /\ UNCHANGED handles

\* drop(v)
Drop ==
    /\ \E v \in Live :
          /\ heap' = rc_drop(heap, v.alloc)
          /\ handles' = Take(handles, v)
          /\ expect' = Sweep(handles', expect)
    /\ last' = NoOp

\* the wrapper v is consumed and the wrapper r.alloc of the other type,
\* built at c from the contents `was`, takes its place
Converted(v, r, c, to, was) ==
    LET hs == Give(Take(handles, v), [kind |-> to, alloc |-> r.alloc, lin |-> c])
        ex == [expect EXCEPT ![c] =
                  [live |-> TRUE, cell |-> was,
                   src |-> IF v.lin = c THEN 0 ELSE v.lin]]
    IN  /\ heap' = r.heap
        /\ handles' = hs
        /\ expect' = Sweep(hs, ex)

\* SharedFrozen::from(v) for a Shared v
FrozenFromShared ==
    /\ \E v \in LiveOf("Shared") :
          \E c \in FreeAddrs(shared_into_raw_or_cloned(heap, v.alloc).heap) :
              Converted(v, frozen_from_shared(heap, v.alloc, c), c, "Frozen", inner(v))
    /\ last' = NoOp

\* Shared::from(v) for a SharedFrozen v
SharedFromFrozen ==
    /\ \E v \in LiveOf("Frozen") :
          \E c \in FreeAddrs(frozen_into_raw_or_cloned(heap, v.alloc).heap) :
              Converted(v, shared_from_frozen(heap, v.alloc, c), c, "Shared", inner(v))
    /\ last' = NoOp

\* a == b on two wrappers of one type
Eq ==
    /\ \E a \in Live, b \in Live :
          /\ a.kind = b.kind
          /\ last' = [NoOp EXCEPT !.op = "eq", !.kind = a.kind,
                       !.same = a.lin = b.lin,
                       !.peq = payload_eq(inner(a), inner(b)),
                       !.r = IF a.kind = "Shared"
                             THEN shared_eq(heap, a.alloc, b.alloc)
                             ELSE frozen_eq(heap, a.alloc, b.alloc)]
    /\ UNCHANGED <<heap, handles, expect>>

\* v.into_raw_or_cloned(), on a wrapper of either type
IntoRawOrCloned ==
    /\ \E v \in Live :
          LET r == IF v.kind = "Shared"
                   THEN shared_into_raw_or_cloned(heap, v.alloc)
                   ELSE frozen_into_raw_or_cloned(heap, v.alloc)
          IN  /\ heap' = r.heap
              /\ handles' = Take(handles, v)
              /\ expect' = Sweep(handles', expect)
              /\ last' = [NoOp EXCEPT !.op = "into_raw", !.lin = v.lin,
                             !.kind = v.kind, !.alloc = v.alloc,
                             !.strong = heap[v.alloc].strong,
                             !.was = inner(v), !.value = r.value,
                             !.panic = r.panic]

-----------------------------------------------------------------------------
(* HashableValue::to_string_key.  A str is the sequence of its characters;  *)
(* the two code points of the model's strings are the characters a and b.   *)

Digit(d) == <<"0", "1", "2", "3", "4", "5", "6", "7", "8", "9">>[d + 1]

RECURSIVE Decimal(_)
Decimal(n) == IF n < 10 THEN <<Digit(n)>> ELSE Decimal(n \div 10) \o <<Digit(n % 10)>>

\* i64::to_string / BigInt::to_string
int_to_string(i) == IF i < 0 THEN <<"-">> \o Decimal(-i) ELSE Decimal(i)

\* bool::to_string
bool_to_string(b) == IF b THEN <<"t", "r", "u", "e">> ELSE <<"f", "a", "l", "s", "e">>

\* f64::to_string (Display): NaN, inf, -inf, or the shortest decimal, which
\* has no point when the value is whole
f64_to_string(f) ==
    CASE f.cls = "nan" -> <<"N", "a", "N">>
      [] f.cls = "inf" -> (IF f.neg THEN <<"-">> ELSE <<>>) \o <<"i", "n", "f">>
      [] OTHER -> (IF f.neg THEN <<"-">> ELSE <<>>)
                  \o Decimal(f.mag \div 2)
                  \o (IF f.mag % 2 = 1 THEN <<".", "5">> ELSE <<>>)

Chr(c) == IF c = 0 THEN "a" ELSE "b"

\* String::to_owned of the payload
to_owned(s) == [k \in 1..Len(s) |-> Chr(s[k])]

\* str::contains(char)
contains(str, c) == \E k \in 1..Len(str) : str[k] = c

SomeKey(str) == [called |-> TRUE, some |-> TRUE, str |-> str]
NoneKey == [called |-> TRUE, some |-> FALSE, str |-> <<>>]
NoKey == [called |-> FALSE, some |-> FALSE, str |-> <<>>]

to_string_key(self) ==
    CASE self.tag = "String" -> SomeKey(to_owned(self.bytes))
      [] self.tag = "None" -> SomeKey(<<"n", "u", "l", "l">>)
      [] self.tag = "Bool" -> SomeKey(bool_to_string(self.b))
      [] self.tag = "I64" -> SomeKey(int_to_string(self.i))
      [] self.tag = "Int" -> SomeKey(int_to_string(self.i))
      [] self.tag = "F64" ->
            LET as_str == f64_to_string(self.f)
            IN  SomeKey(IF ~contains(as_str, ".") THEN as_str \o <<".", "0">> ELSE as_str)
      [] OTHER -> NoneKey

InitKey ==
    /\ x \in HValues
    /\ key = NoKey
    /\ y = [tag |-> "-"]
    /\ big_to_f64 = "Inf"
    /\ ord = "-"
    /\ rev = "-"
    /\ val = [tag |-> "-"]
    /\ hres = [ok |-> FALSE]
    /\ heap = <<>>
    /\ handles = <<>>
    /\ expect = <<>>
    /\ last = [op |-> "-"]
    /\ byte = 0
    /\ opcode = "-"
    /\ set = <<>>
    /\ dict = <<>>
    /\ ins = [op |-> "-"]
    /\ ra = [tag |-> "-"]
    /\ rb = [tag |-> "-"]
    /\ alias = FALSE
    /\ rord = "-"
    /\ rrev = "-"
    /\ req = "-"
    /\ rres = [ok |-> FALSE]
    /\ draw = 0
    /\ sign = FALSE
    /\ big = "-"
    /\ hint = "-"
    /\ vb = [tag |-> "-"]
    /\ veq = [called |-> FALSE]

ToStringKey ==
    /\ ~key.called
    /\ key' = to_string_key(x)
    /\ UNCHANGED x

-----------------------------------------------------------------------------
(* Opcode and Opcode::try_from (src/src/consts.rs).                         *)

\* enum Opcode with its #[repr(u8)] discriminants: <<variant, wire byte>>
Opcode == {
    <<"Mark", 40>>, <<"Stop", 46>>, <<"Pop", 48>>, <<"PopMark", 49>>,
    <<"Dup", 50>>, <<"Float", 70>>, <<"Int", 73>>, <<"BinInt", 74>>,
    <<"BinInt1", 75>>, <<"Long", 76>>, <<"BinInt2", 77>>, <<"None", 78>>,
    <<"String", 83>>, <<"BinString", 84>>, <<"ShortBinString", 85>>,
    <<"Unicode", 86>>, <<"BinUnicode", 88>>, <<"Append", 97>>,
    <<"Dict", 100>>, <<"EmptyDict", 125>>, <<"Appends", 101>>,
    <<"List", 108>>, <<"EmptyList", 93>>, <<"SetItem", 115>>,
    <<"Tuple", 116>>, <<"EmptyTuple", 41>>, <<"SetItems", 117>>,
    <<"BinFloat", 71>>, <<"Put", 112>>, <<"BinPut", 113>>,
    <<"LongBinPut", 114>>, <<"Get", 103>>, <<"BinGet", 104>>,
    <<"LongBinGet", 106>>, <<"Global", 99>>, <<"StackGlobal", 147>>,
    <<"Reduce", 82>>, <<"Proto", 128>>, <<"Tuple1", 133>>, <<"Tuple2", 134>>,
    <<"Tuple3", 135>>, <<"NewTrue", 136>>, <<"NewFalse", 137>>,
    <<"Long1", 138>>, <<"Long4", 139>>, <<"BinBytes", 66>>,
    <<"ShortBinBytes", 67>>, <<"ShortBinUnicode", 140>>,
    <<"BinUnicode8", 141>>, <<"BinBytes8", 142>>, <<"EmptySet", 143>>,
    <<"AddItems", 144>>, <<"FrozenSet", 145>>, <<"Memoize", 148>>,
    <<"Frame", 149>>, <<"Inst", 105>>, <<"Obj", 111>>, <<"Build", 98>>,
    <<"NewObj", 129>>, <<"NewObjEx", 146>>, <<"ByteArray8", 150>>}

\* the arms of the match in try_from: <<byte, variant>>
TryFromArms == {
    <<40, "Mark">>, <<46, "Stop">>, <<48, "Pop">>, <<49, "PopMark">>,
    <<50, "Dup">>, <<70, "Float">>, <<73, "Int">>, <<74, "BinInt">>,
    <<75, "BinInt1">>, <<76, "Long">>, <<77, "BinInt2">>, <<78, "None">>,
    <<83, "String">>, <<84, "BinString">>, <<85, "ShortBinString">>,
    <<86, "Unicode">>, <<88, "BinUnicode">>, <<97, "Append">>,
    <<100, "Dict">>, <<125, "EmptyDict">>, <<101, "Appends">>,
    <<108, "List">>, <<93, "EmptyList">>, <<115, "SetItem">>,
    <<116, "Tuple">>, <<41, "EmptyTuple">>, <<117, "SetItems">>,
    <<71, "BinFloat">>, <<112, "Put">>, <<113, "BinPut">>,
    <<114, "LongBinPut">>, <<103, "Get">>, <<104, "BinGet">>,
    <<106, "LongBinGet">>, <<99, "Global">>, <<147, "StackGlobal">>,
    <<82, "Reduce">>, <<128, "Proto">>, <<133, "Tuple1">>, <<134, "Tuple2">>,
    <<135, "Tuple3">>, <<136, "NewTrue">>, <<137, "NewFalse">>,
    <<138, "Long1">>, <<139, "Long4">>, <<66, "BinBytes">>,
    <<67, "ShortBinBytes">>, <<140, "ShortBinUnicode">>,
    <<141, "BinUnicode8">>, <<142, "BinBytes8">>, <<143, "EmptySet">>,
    <<144, "AddItems">>, <<145, "FrozenSet">>, <<148, "Memoize">>,
    <<149, "Frame">>, <<105, "Inst">>, <<111, "Obj">>, <<98, "Build">>,
    <<129, "NewObj">>, <<146, "NewObjEx">>, <<150, "ByteArray8">>}

NoOpcode == [called |-> FALSE, ok |-> FALSE, op |-> "-", err |-> "-", arg |-> 0]
OkOpcode(op) == [called |-> TRUE, ok |-> TRUE, op |-> op, err |-> "-", arg |-> 0]
ErrOpcode(err, arg) == [called |-> TRUE, ok |-> FALSE, op |-> "-", err |-> err, arg |-> arg]

\* value as char: the code point of that number
as_char(value) == value

try_from(value) ==
    IF \E arm \in TryFromArms : arm[1] = value
    THEN OkOpcode((CHOOSE arm \in TryFromArms : arm[1] = value)[2])
    ELSE ErrOpcode("Unsupported", as_char(value))

InitOpcode ==
    /\ byte \in 0..255
    /\ opcode = NoOpcode
    /\ x = [tag |-> "-"]
    /\ y = [tag |-> "-"]
    /\ big_to_f64 = "Inf"
    /\ ord = "-"
    /\ rev = "-"
    /\ val = [tag |-> "-"]
    /\ hres = [ok |-> FALSE]
    /\ heap = <<>>
    /\ handles = <<>>
    /\ expect = <<>>
    /\ last = [op |-> "-"]
    /\ key = [some |-> FALSE]
    /\ set = <<>>
    /\ dict = <<>>
    /\ ins = [op |-> "-"]
    /\ ra = [tag |-> "-"]
    /\ rb = [tag |-> "-"]
    /\ alias = FALSE
    /\ rord = "-"
    /\ rrev = "-"
    /\ req = "-"
    /\ rres = [ok |-> FALSE]
    /\ draw = 0
    /\ sign = FALSE
    /\ big = "-"
    /\ hint = "-"
    /\ vb = [tag |-> "-"]
    /\ veq = [called |-> FALSE]

TryFrom ==
    /\ ~opcode.called
    /\ opcode' = try_from(byte)
    /\ UNCHANGED byte

-----------------------------------------------------------------------------
(* Value::Set / Value::FrozenSet (BTreeSet<HashableValue>) and Value::Dict  *)
(* (BTreeMap<HashableValue, Value>), filled by insert.  A tree of at most   *)
(* eleven keys is one leaf, searched from the left by key.cmp(stored); a    *)
(* behaviour fills one of the two containers.                               *)

MaxKeys == 3

TreeKeys == {HBool(TRUE), HI64(1), HF64(FNan(FALSE)), HF64(FFin(FALSE, 4))}
TreeValues == {VNone, VI64(1)}

\* BTreeMap::insert(k, v): an entry whose key compares Equal keeps its key
\* and takes the new value
RECURSIVE btree_map_insert(_, _, _)
btree_map_insert(entries, k, v) ==
    IF entries = <<>> THEN <<[k |-> k, v |-> v]>>
    ELSE LET o == cmp_with(k, Head(entries).k, "Inf")
         IN  IF o = "Greater" THEN <<Head(entries)>> \o btree_map_insert(Tail(entries), k, v)
             ELSE IF o = "Equal" THEN <<[Head(entries) EXCEPT !.v = v]>> \o Tail(entries)
             ELSE <<[k |-> k, v |-> v]>> \o entries

NoIns == [op |-> "-", k |-> HNone, v |-> VNone, had |-> FALSE, old |-> HNone, len |-> 0]

\* the insert just made: whether a stored key was == k, which one, and how
\* many keys there were
Inserted(op, keys, k, v) ==
    LET eqs == {j \in 1..Len(keys) : hv_eq(k, keys[j])}
    IN  [op |-> op, k |-> k, v |-> v, had |-> eqs # {},
         old |-> IF eqs = {} THEN HNone ELSE keys[CHOOSE j \in eqs : \A m \in eqs : j <= m],
         len |-> Len(keys)]

InitTree ==
    /\ set = <<>>
    /\ dict = <<>>
    /\ ins = NoIns
    /\ x = [tag |-> "-"]
    /\ y = [tag |-> "-"]
    /\ big_to_f64 = "Inf"
    /\ ord = "-"
    /\ rev = "-"
    /\ val = [tag |-> "-"]
    /\ hres = [ok |-> FALSE]
    /\ heap = <<>>
    /\ handles = <<>>
    /\ expect = <<>>
    /\ last = [op |-> "-"]
    /\ key = [some |-> FALSE]
    /\ byte = 0
    /\ opcode = "-"
    /\ ra = [tag |-> "-"]
    /\ rb = [tag |-> "-"]
    /\ alias = FALSE
    /\ rord = "-"
    /\ rrev = "-"
    /\ req = "-"
    /\ rres = [ok |-> FALSE]
    /\ draw = 0
    /\ sign = FALSE
    /\ big = "-"
    /\ hint = "-"
    /\ vb = [tag |-> "-"]
    /\ veq = [called |-> FALSE]

\* set.insert(k)
SetInsert ==
    /\ dict = <<>>
    /\ Len(set) < MaxKeys
    /\ \E k \in TreeKeys :
          /\ set' = btree_insert(set, k)
          /\ ins' = Inserted("set", set, k, VNone)
    /\ UNCHANGED dict

\* dict.insert(k, v)
DictInsert ==
    /\ set = <<>>
    /\ Len(dict) < MaxKeys
    /\ \E k \in TreeKeys, v \in TreeValues :
          /\ dict' = btree_map_insert(dict, k, v)
          /\ ins' = Inserted("dict", [j \in 1..Len(dict) |-> dict[j].k], k, v)
    /\ UNCHANGED set

-----------------------------------------------------------------------------
(* RawHashableValue and its order and equality.                             *)

RV(tag, b, i, f, bytes, items) == Rec("RawHashableValue", tag, b, i, f, bytes, items)

RNone == RV("None", FALSE, 0, FZero, <<>>, <<>>)
RBool(b) == RV("Bool", b, 0, FZero, <<>>, <<>>)
RI64(i) == RV("I64", FALSE, i, FZero, <<>>, <<>>)
RInt(n) == RV("Int", FALSE, n, FZero, <<>>, <<>>)
RF64(f) == RV("F64", FALSE, 0, f, <<>>, <<>>)
RBytes(s) == RV("Bytes", FALSE, 0, FZero, s, <<>>)
RString(s) == RV("String", FALSE, 0, FZero, s, <<>>)
RTuple(t) == RV("Tuple", FALSE, 0, FZero, <<>>, t)
RFrozenSet(t) == RV("FrozenSet", FALSE, 0, FZero, <<>>, t)

\* f64::total_cmp: the order of the sign-magnitude bit patterns, every
\* negative float (-NaN lowest, then -inf, down to -0.0) below every positive
\* one (+0.0 up to +inf, then +NaN)
total_cmp(f, g) ==
    LET bits(h) == CASE h.cls = "nan" -> 2 * FloatMaxHalf + 1
                     [] h.cls = "inf" -> 2 * FloatMaxHalf
                     [] OTHER -> h.mag
        k(h) == IF h.neg THEN -bits(h) - 1 ELSE bits(h)
    IN  IntCmp(k(f), k(g))

\* a float order that is the public one
total_float_ord_partial(f, g) == float_ord(f, g)

total_float_ord(f, g) == total_cmp(f, g)

\* the discriminants the match in cmp assigns
discr(v) ==
    CASE v.tag = "None" -> 0
      [] v.tag = "Bool" -> 1
      [] v.tag = "I64" -> 2
      [] v.tag = "Int" -> 3
      [] v.tag = "F64" -> 4
      [] v.tag = "Bytes" -> 5
      [] v.tag = "String" -> 6
      [] v.tag = "Tuple" -> 7
      [] v.tag = "FrozenSet" -> 8

\* bool::cmp
BoolCmp(a, b) == IntCmp(BoolToI64(a), BoolToI64(b))

RECURSIVE raw_cmp(_, _), RawSeqCmp(_, _)

\* Ord of Vec<RawHashableValue> and of BTreeSet<RawHashableValue>: the first
\* differing element in iteration order, else the lengths
RawSeqCmp(s, t) ==
    IF s = <<>> THEN (IF t = <<>> THEN "Equal" ELSE "Less")
    ELSE IF t = <<>> THEN "Greater"
    ELSE LET o == raw_cmp(Head(s), Head(t))
         IN  IF o = "Equal" THEN RawSeqCmp(Tail(s), Tail(t)) ELSE o

\* impl Ord for RawHashableValue
raw_cmp(self, other) ==
    LET d == IntCmp(discr(self), discr(other))
    IN  IF d # "Equal" THEN d
        ELSE CASE self.tag = "Bool" -> BoolCmp(self.b, other.b)
               [] self.tag = "I64" -> IntCmp(self.i, other.i)
               [] self.tag = "Int" -> IntCmp(self.i, other.i)
               [] self.tag = "Bytes" -> BytesCmp(self.bytes, other.bytes)
               [] self.tag = "String" -> BytesCmp(self.bytes, other.bytes)
               [] self.tag = "Tuple" -> RawSeqCmp(self.items, other.items)
               [] self.tag = "FrozenSet" -> RawSeqCmp(self.items, other.items)
               [] self.tag = "F64" -> total_float_ord(self.f, other.f)
               [] OTHER -> "Equal"

RECURSIVE raw_eq(_, _, _)

\* #[derive(PartialEq)] for RawHashableValue; same says that the two values
\* hold one Rc, which the == of SharedFrozen asks first
raw_eq(a, b, same) ==
    /\ a.tag = b.tag
    /\ CASE a.tag = "None" -> TRUE
         [] a.tag = "Bool" -> a.b = b.b
         [] a.tag \in {"I64", "Int"} -> a.i = b.i
         [] a.tag = "F64" -> float_eq(a.f, b.f)
         [] a.tag \in {"Bytes", "String"} -> same \/ a.bytes = b.bytes
         [] OTHER -> \/ same
                     \/ /\ Len(a.items) = Len(b.items)
                        /\ \A k \in 1..Len(a.items) : raw_eq(a.items[k], b.items[k], FALSE)

\* BTreeSet<RawHashableValue>::insert, the set being one leaf
RECURSIVE raw_insert(_, _)
raw_insert(keys, e) ==
    IF keys = <<>> THEN <<e>>
    ELSE LET o == raw_cmp(e, Head(keys))
         IN  IF o = "Greater" THEN <<Head(keys)>> \o raw_insert(Tail(keys), e)
             ELSE IF o = "Equal" THEN keys
             ELSE <<e>> \o keys

RECURSIVE RawInsertAll(_, _)
RawInsertAll(keys, s) ==
    IF s = <<>> THEN keys ELSE RawInsertAll(raw_insert(keys, Head(s)), Tail(s))

RawElemValues == {RBool(TRUE), RF64(FNan(FALSE)), RF64(FFin(TRUE, 0))}

RawElemSeqs == SeqsUpTo(RawElemValues, MaxLen)

RValues ==
    {RNone}
    \cup {RBool(b) : b \in BOOLEAN}
    \cup {RI64(i) : i \in I64Min..I64Max}
    \cup {RInt(n) : n \in -BigMax..BigMax}
    \cup {RF64(f) : f \in Floats}
    \cup {RBytes(s) : s \in ByteSeqs}
    \cup {RString(s) : s \in ByteSeqs}
    \cup {RTuple(t) : t \in RawElemSeqs}
    \cup {RFrozenSet(RawInsertAll(<<>>, t)) : t \in RawElemSeqs}

IsWrapper(v) == v.tag \in {"Bytes", "String", "Tuple", "FrozenSet"}

InitRaw ==
    /\ ra \in RValues
    /\ rb \in RValues
    /\ alias \in {a \in BOOLEAN : a => (ra = rb /\ IsWrapper(ra))}
    /\ x = [tag |-> "-"]
    /\ y = [tag |-> "-"]
    /\ big_to_f64 = "Inf"
    /\ ord = "-"
    /\ rev = "-"
    /\ val = [tag |-> "-"]
    /\ hres = [ok |-> FALSE]
    /\ heap = <<>>
    /\ handles = <<>>
    /\ expect = <<>>
    /\ last = [op |-> "-"]
    /\ key = [some |-> FALSE]
    /\ byte = 0
    /\ opcode = "-"
    /\ set = <<>>
    /\ dict = <<>>
    /\ ins = [op |-> "-"]
    /\ rord = "-"
    /\ rrev = "-"
    /\ req = "-"
    /\ rres = [ok |-> FALSE]
    /\ draw = 0
    /\ sign = FALSE
    /\ big = "-"
    /\ hint = "-"
    /\ vb = [tag |-> "-"]
    /\ veq = [called |-> FALSE]

RawCompare ==
    /\ rord = "-"
    /\ rord' = raw_cmp(ra, rb)
    /\ rrev' = raw_cmp(rb, ra)
    /\ req' = [eq |-> raw_eq(ra, rb, alias)]
    /\ UNCHANGED <<ra, rb, alias, rres>>

-----------------------------------------------------------------------------
(* HashableValue::into_value and Value::into_raw_hashable.                  *)

RECURSIVE into_value(_)

\* a conversion that hands the elements back in reverse
RECURSIVE hashable_to_values_reversed(_)
hashable_to_values_reversed(values) ==
    IF values = <<>> THEN <<>>
    ELSE hashable_to_values_reversed(Tail(values)) \o <<into_value(Head(values))>>

\* .map(HashableValue::into_value).collect::<Vec<_>>()
hashable_to_values(values) == [k \in 1..Len(values) |-> into_value(values[k])]

into_value(self) ==
    CASE self.tag = "None" -> VNone
      [] self.tag = "Bool" -> VBool(self.b)
      [] self.tag = "I64" -> VI64(self.i)
      [] self.tag = "Int" -> VInt(self.i)
      [] self.tag = "F64" -> VF64(self.f)
      [] self.tag = "Bytes" -> VBytes(self.bytes)
      [] self.tag = "String" -> VString(self.bytes)
      [] self.tag = "FrozenSet" -> VFrozenSet(self.items)
      [] self.tag = "Tuple" -> VTuple(hashable_to_values(self.items))

\* the panic of expect("failed to round-trip")
Panic == [ok |-> FALSE, v |-> HNone, err |-> "panic: failed to round-trip"]

RECURSIVE into_raw_hashable(_), CollectRawHashable(_), CollectMembers(_, _)

\* .map(Value::into_raw_hashable).collect::<Result<Vec<_>, _>>(): the
\* elements in order, or the first error (a panic ends the call)
CollectRawHashable(values) ==
    IF values = <<>> THEN Ok(<<>>)
    ELSE LET h == into_raw_hashable(Head(values))
         IN  IF ~h.ok THEN h
             ELSE LET rest == CollectRawHashable(Tail(values))
                  IN  IF ~rest.ok THEN rest ELSE Ok(<<h.v>> \o rest.v)

values_to_raw_hashable(values) == CollectRawHashable(values)

\* BTreeSet::from_iter over v.into_value().into_raw_hashable().expect(..)
CollectMembers(keys, members) ==
    IF members = <<>> THEN Ok(keys)
    ELSE LET r == into_raw_hashable(into_value(Head(members)))
         IN  IF ~r.ok THEN Panic
             ELSE CollectMembers(raw_insert(keys, r.v), Tail(members))

into_raw_hashable(self) ==
    CASE self.tag = "None" -> Ok(RNone)
      [] self.tag = "Bool" -> Ok(RBool(self.b))
      [] self.tag = "I64" -> Ok(RI64(self.i))
      [] self.tag = "Int" -> Ok(RInt(self.i))
      [] self.tag = "F64" -> Ok(RF64(self.f))
      [] self.tag = "Bytes" -> Ok(RBytes(self.bytes))
      [] self.tag = "String" -> Ok(RString(self.bytes))
      [] self.tag = "FrozenSet" ->
            LET new == CollectMembers(<<>>, self.items)
            IN  IF new.ok THEN Ok(RFrozenSet(new.v)) ELSE new
      [] self.tag = "Tuple" ->
            LET r == values_to_raw_hashable(self.items)
            IN  IF r.ok THEN Ok(RTuple(r.v)) ELSE r
      [] OTHER -> Err("ValueNotHashable")

\* Tuples of a Tuple and a FrozenSet, and FrozenSets of a Tuple
NestedHValues ==
    {HTuple(<<HTuple(t), HFrozenSet(InsertAll(<<>>, s))>>) : t \in ElemSeqs, s \in ElemSeqs}
    \cup {HFrozenSet(<<HTuple(t)>>) : t \in ElemSeqs}

TripHValues == HValues \cup NestedHValues

TripValues ==
    BaseValues \cup {VTuple(<<b>>) : b \in BaseValues}
    \cup {VTuple(<<VNone, VTuple(<<b>>)>>) : b \in BaseValues}

InitTrip ==
    /\ x \in TripHValues
    /\ val \in TripValues
    /\ hres = NoResult
    /\ rres = NoResult
    /\ y = [tag |-> "-"]
    /\ big_to_f64 = "Inf"
    /\ ord = "-"
    /\ rev = "-"
    /\ heap = <<>>
    /\ handles = <<>>
    /\ expect = <<>>
    /\ last = [op |-> "-"]
    /\ key = [some |-> FALSE]
    /\ byte = 0
    /\ opcode = "-"
    /\ set = <<>>
    /\ dict = <<>>
    /\ ins = [op |-> "-"]
    /\ ra = [tag |-> "-"]
    /\ rb = [tag |-> "-"]
    /\ alias = FALSE
    /\ rord = "-"
    /\ rrev = "-"
    /\ req = "-"
    /\ draw = 0
    /\ sign = FALSE
    /\ big = "-"
    /\ hint = "-"
    /\ vb = [tag |-> "-"]
    /\ veq = [called |-> FALSE]

\* x.into_value(), then into_hashable() and into_raw_hashable() of it
RoundTrip ==
    /\ hres = NoResult
    /\ val' = into_value(x)
    /\ hres' = into_hashable(val')
    /\ rres' = into_raw_hashable(val')
    /\ UNCHANGED x

\* val.into_hashable() and val.into_raw_hashable()
IntoRawHashable ==
    /\ hres = NoResult
    /\ hres' = into_hashable(val)
    /\ rres' = into_raw_hashable(val)
    /\ UNCHANGED <<x, val>>

-----------------------------------------------------------------------------
(* The public order beside the raw order of the raw-hashable images.        *)

\* the raw-hashable form of a HashableValue, as into_raw_hashable makes it
\* of the members of a FrozenSet
raw_image(h) == into_raw_hashable(into_value(h)).v

InitEnc ==
    /\ x \in HValues
    /\ y \in HValues
    /\ big_to_f64 \in {"Inf", "None"}
    /\ ord = "-"
    /\ rev = "-"
    /\ val = [tag |-> "-"]
    /\ hres = [ok |-> FALSE]
    /\ heap = <<>>
    /\ handles = <<>>
    /\ expect = <<>>
    /\ last = [op |-> "-"]
    /\ key = [some |-> FALSE]
    /\ byte = 0
    /\ opcode = "-"
    /\ set = <<>>
    /\ dict = <<>>
    /\ ins = [op |-> "-"]
    /\ ra = [tag |-> "-"]
    /\ rb = [tag |-> "-"]
    /\ alias = FALSE
    /\ rord = "-"
    /\ rrev = "-"
    /\ req = "-"
    /\ rres = [ok |-> FALSE]
    /\ draw = 0
    /\ sign = FALSE
    /\ big = "-"
    /\ hint = "-"
    /\ vb = [tag |-> "-"]
    /\ veq = [called |-> FALSE]

\* cmp(x, y), and cmp of the raw-hashable images of x and y
EncodeOrder ==
    /\ ord = "-"
    /\ ord' = cmp(x, y)
    /\ ra' = raw_image(x)
    /\ rb' = raw_image(y)
    /\ rord' = raw_cmp(ra', rb')
    /\ UNCHANGED <<x, y, big_to_f64, rev, alias, rrev, req, rres>>

-----------------------------------------------------------------------------
(* The big-integer generators of the tests (src/test/arby.rs).              *)

NoInt == [some |-> FALSE, n |-> 0]
SomeInt(n) == [some |-> TRUE, n |-> n]

\* gen_bigint: 2 * (i64::MIN or i64::MAX) + an i64, in BigInt arithmetic
gen_bigint(b, i) ==
    LET offset == 2 * (IF b THEN I64Min ELSE I64Max)
    IN  offset + i

\* the Int arm of gen_hvalue: val + 2 * i64::MAX
gen_hvalue_int(v) ==
    LET max == I64Max
    IN  v + 2 * max

InitGen ==
    /\ draw \in I64Min..I64Max
    /\ sign \in BOOLEAN
    /\ big = NoInt
    /\ hint = NoInt
    /\ vb = [tag |-> "-"]
    /\ veq = [called |-> FALSE]
    /\ x = [tag |-> "-"]
    /\ y = [tag |-> "-"]
    /\ big_to_f64 = "Inf"
    /\ ord = "-"
    /\ rev = "-"
    /\ val = [tag |-> "-"]
    /\ hres = [ok |-> FALSE]
    /\ heap = <<>>
    /\ handles = <<>>
    /\ expect = <<>>
    /\ last = [op |-> "-"]
    /\ key = [some |-> FALSE]
    /\ byte = 0
    /\ opcode = "-"
    /\ set = <<>>
    /\ dict = <<>>
    /\ ins = [op |-> "-"]
    /\ ra = [tag |-> "-"]
    /\ rb = [tag |-> "-"]
    /\ alias = FALSE
    /\ rord = "-"
    /\ rrev = "-"
    /\ req = "-"
    /\ rres = [ok |-> FALSE]

GenBigint ==
    /\ ~big.some
    /\ big' = SomeInt(gen_bigint(sign, draw))
    /\ UNCHANGED <<draw, sign, hint>>

GenHvalueInt ==
    /\ ~hint.some
    /\ hint' = SomeInt(gen_hvalue_int(draw))
    /\ UNCHANGED <<draw, sign, big>>

-----------------------------------------------------------------------------
(* a == b on two Values (the derived PartialEq) next to the == of their    *)
(* into_hashable projections.                                               *)

NoEq == [called |-> FALSE, eq |-> FALSE, ok |-> FALSE, heq |-> FALSE]

IsValueWrapper(v) ==
    v.tag \in {"Bytes", "String", "List", "Tuple", "Set", "FrozenSet", "Dict"}

\* a == b; `same` says that b is a clone of a: the wrapper variants then hold
\* one Rc, and Shared / SharedFrozen answer by Rc::ptr_eq before looking inside
value_partial_eq(a, b, same) ==
    IF same /\ IsValueWrapper(a) /\ a.tag = b.tag THEN TRUE ELSE value_eq(a, b)

\* a.into_hashable() == b.into_hashable() when both are Ok: values_to_hashable
\* builds new wrappers and HashableValue's == is cmp, so no Rc is consulted
hashable_eq(a, b) ==
    LET ha == into_hashable(a)
        hb == into_hashable(b)
    IN  ha.ok /\ hb.ok /\ hv_eq(ha.v, hb.v)

EqScalars ==
    {VNone, VBool(FALSE), VBool(TRUE), VI64(0), VI64(1), VInt(1), VInt(BigMax),
     VF64(FZero), VF64(FFin(TRUE, 0)), VF64(FFin(FALSE, 2)),
     VF64(FFin(FALSE, 3)), VF64(FNan(FALSE)), VBytes(<<1>>), VString(<<1>>)}

EqElems == {VBool(TRUE), VI64(1), VF64(FFin(FALSE, 2)), VF64(FNan(FALSE))}

EqValues ==
    EqScalars
    \cup {VTuple(t) : t \in SeqsUpTo(EqElems, MaxLen)}
    \cup {VList(t) : t \in SeqsUpTo(EqElems, MaxLen)}
    \cup {VFrozenSet(<<>>), VFrozenSet(<<HBool(TRUE)>>), VFrozenSet(<<HI64(1)>>),
          VTuple(<<VTuple(<<VInt(1)>>)>>), VTuple(<<VTuple(<<VI64(1)>>)>>)}

InitValueEq ==
    /\ val \in EqValues
    /\ vb \in EqValues
    /\ alias \in {FALSE} \cup {s \in {TRUE} : vb = val /\ IsValueWrapper(val)}
    /\ big_to_f64 \in {"Inf", "None"}
    /\ veq = NoEq
    /\ x = [tag |-> "-"]
    /\ y = [tag |-> "-"]
    /\ ord = "-"
    /\ rev = "-"
    /\ hres = [ok |-> FALSE]
    /\ heap = <<>>
    /\ handles = <<>>
    /\ expect = <<>>
    /\ last = [op |-> "-"]
    /\ key = [some |-> FALSE]
    /\ byte = 0
    /\ opcode = "-"
    /\ set = <<>>
    /\ dict = <<>>
    /\ ins = [op |-> "-"]
    /\ ra = [tag |-> "-"]
    /\ rb = [tag |-> "-"]
    /\ rord = "-"
    /\ rrev = "-"
    /\ req = "-"
    /\ rres = [ok |-> FALSE]
    /\ draw = 0
    /\ sign = FALSE
    /\ big = "-"
    /\ hint = "-"

ValueEq ==
    /\ ~veq.called
    /\ veq' = [called |-> TRUE,
               eq |-> value_partial_eq(val, vb, alias),
               ok |-> into_hashable(val).ok /\ into_hashable(vb).ok,
               heq |-> hashable_eq(val, vb)]
    /\ UNCHANGED <<val, vb, alias, big_to_f64>>

NextOrd == Compare /\ UNCHANGED <<hashVars, sharedVars, laterVars>>

SpecOrd == InitOrd /\ [][NextOrd]_vars

NextHash ==
    \/ WrapTuple /\ UNCHANGED <<ordVars, sharedVars, laterVars>>
    \/ WrapList /\ UNCHANGED <<ordVars, sharedVars, laterVars>>
    \/ IntoHashable /\ UNCHANGED <<ordVars, sharedVars, laterVars>>

SpecHash == InitHash /\ [][NextHash]_vars

NextShared ==
    \/ SharedNew /\ UNCHANGED <<ordVars, hashVars, laterVars>>
    \/ FrozenNew /\ UNCHANGED <<ordVars, hashVars, laterVars>>
    \/ Clone /\ UNCHANGED <<ordVars, hashVars, laterVars>>
    \/ Mutate /\ UNCHANGED <<ordVars, hashVars, laterVars>>
    \/ Drop /\ UNCHANGED <<ordVars, hashVars, laterVars>>
    \/ FrozenFromShared /\ UNCHANGED <<ordVars, hashVars, laterVars>>
    \/ SharedFromFrozen /\ UNCHANGED <<ordVars, hashVars, laterVars>>
    \/ Eq /\ UNCHANGED <<ordVars, hashVars, laterVars>>
    \/ IntoRawOrCloned /\ UNCHANGED <<ordVars, hashVars, laterVars>>

SpecShared == InitShared /\ [][NextShared]_vars

NextKey ==
    ToStringKey /\ UNCHANGED <<y, big_to_f64, ord, rev, hashVars, sharedVars,
                               opVars, treeVars, rawVars, genVars, eqVars>>

SpecKey == InitKey /\ [][NextKey]_vars

NextOpcode ==
    TryFrom /\ UNCHANGED <<ordVars, hashVars, sharedVars, keyVars, treeVars,
                           rawVars, genVars, eqVars>>

SpecOpcode == InitOpcode /\ [][NextOpcode]_vars

NextTree ==
    \/ SetInsert /\ UNCHANGED <<ordVars, hashVars, sharedVars, keyVars, opVars,
                                rawVars, genVars, eqVars>>
    \/ DictInsert /\ UNCHANGED <<ordVars, hashVars, sharedVars, keyVars, opVars,
                                 rawVars, genVars, eqVars>>

SpecTree == InitTree /\ [][NextTree]_vars

NextRaw ==
    RawCompare /\ UNCHANGED <<ordVars, hashVars, sharedVars, keyVars, opVars,
                              treeVars, genVars, eqVars>>

SpecRaw == InitRaw /\ [][NextRaw]_vars

NextTrip ==
    \/ RoundTrip /\ UNCHANGED <<y, big_to_f64, ord, rev, sharedVars, keyVars,
                                opVars, treeVars, ra, rb, alias, rord, rrev, req,
                                genVars, eqVars>>
    \/ IntoRawHashable /\ UNCHANGED <<y, big_to_f64, ord, rev, sharedVars, keyVars,
                                      opVars, treeVars, ra, rb, alias, rord, rrev,
                                      req, genVars, eqVars>>

SpecTrip == InitTrip /\ [][NextTrip]_vars

NextEnc ==
    EncodeOrder /\ UNCHANGED <<hashVars, sharedVars, keyVars, opVars, treeVars,
                               genVars, eqVars>>

SpecEnc == InitEnc /\ [][NextEnc]_vars

NextGen ==
    \/ GenBigint /\ UNCHANGED <<ordVars, hashVars, sharedVars, keyVars, opVars,
                                treeVars, rawVars, eqVars>>
    \/ GenHvalueInt /\ UNCHANGED <<ordVars, hashVars, sharedVars, keyVars, opVars,
                                   treeVars, rawVars, eqVars>>

SpecGen == InitGen /\ [][NextGen]_vars

NextValueEq ==
    ValueEq /\ UNCHANGED <<x, y, ord, rev, hres, sharedVars, keyVars, opVars,
                           treeVars, ra, rb, rord, rrev, req, rres, genVars>>

SpecValueEq == InitValueEq /\ [][NextValueEq]_vars

-----------------------------------------------------------------------------
(* Claims about the HashableValue order (SpecOrd).                          *)

Compared == ord # "-"

Reverse(o) == IF o = "Less" THEN "Greater" ELSE IF o = "Greater" THEN "Less" ELSE o

IsNumeric(v) == v.tag \in {"Bool", "I64", "Int", "F64"}

IsNanValue(v) == v.tag = "F64" /\ IsNan(v.f)

Count(b) == IF b THEN 1 ELSE 0

\* C1: for any two HashableValues a, b exactly one of a<b, a==b, a>b holds
\* (a>b being cmp(b,a) = Less); equivalently cmp(a,b) is the reverse of cmp(b,a).
C1_Trichotomy ==
    Compared =>
        /\ Count(ord = "Less") + Count(ord = "Equal") + Count(rev = "Less") = 1
        /\ ord = Reverse(rev)

\* C2: the order is transitive: a<b and b<c give a<c, and a==b and b==c
\* give a==c, for every third value c.
C2_Transitive ==
    Compared =>
        \A z \in HValues :
            /\ (ord = "Less" /\ cmp(y, z) = "Less") => cmp(x, z) = "Less"
            /\ (ord = "Equal" /\ cmp(y, z) = "Equal") => cmp(x, z) = "Equal"

\* the mathematical value of a non-NaN numeric value, in half-units
MathKey(v) ==
    CASE v.tag = "Bool" -> 2 * BoolToI64(v.b)
      [] v.tag \in {"I64", "Int"} -> 2 * v.i
      [] v.tag = "F64" ->
            IF v.f.cls = "inf"
            THEN (IF v.f.neg THEN -(4 * BigMax) ELSE 4 * BigMax)
            ELSE (IF v.f.neg THEN -v.f.mag ELSE v.f.mag)

\* n converted to f64 compared with f, the sign of n deciding when n has no f64
ConvertedCmp(n, f) ==
    LET c == BigIntToF64(n, big_to_f64)
    IN  IF c.some THEN IntCmp(FloatKey(c.f), FloatKey(f))
        ELSE IF n > 0 THEN "Greater" ELSE "Less"

\* C3: non-NaN numeric values compare by mathematical value in both argument
\* orders; Int against F64 is decided, in both orders, by comparing the
\* integer converted to f64 with the float.
C3_NumericByValue ==
    (Compared /\ IsNumeric(x) /\ IsNumeric(y) /\ ~IsNanValue(x) /\ ~IsNanValue(y)) =>
        /\ ord = IntCmp(MathKey(x), MathKey(y))
        /\ (x.tag = "Int" /\ y.tag = "F64") =>
                (ord = ConvertedCmp(x.i, y.f) /\ rev = Reverse(ConvertedCmp(x.i, y.f)))

\* C4: F64(NaN) is less than every non-NaN F64 whichever side it is on:
\* cmp(NaN, x) = Less and cmp(x, NaN) = Greater.
C4_NanLeast ==
    (Compared /\ IsNanValue(x) /\ y.tag = "F64" /\ ~IsNanValue(y)) =>
        (ord = "Less" /\ rev = "Greater")

DenotesInteger(v) ==
    /\ IsNumeric(v)
    /\ v.tag = "F64" => (v.f.cls = "fin" /\ v.f.mag % 2 = 0)

\* C5: two numeric values that denote the same integer are == in every
\* pairing and in both argument orders.
C5_SameIntegerEqual ==
    (Compared /\ DenotesInteger(x) /\ DenotesInteger(y) /\ MathKey(x) = MathKey(y)) =>
        (ord = "Equal" /\ rev = "Equal")

\* the named instances of C5: true, 1, 1, 1.0 and false, 0, 0, 0.0
C5_NamedInstances ==
    \A n \in {0, 1} :
        \A a, b \in {HBool(n = 1), HI64(n), HInt(n), HF64(FFin(FALSE, 2 * n))} :
            hv_eq(a, b)

Rank(v) ==
    CASE v.tag = "None" -> 0
      [] IsNumeric(v) -> 1
      [] v.tag = "Bytes" -> 2
      [] v.tag = "String" -> 3
      [] v.tag = "FrozenSet" -> 4
      [] v.tag = "Tuple" -> 5

\* C6: values of different rank classes compare by class alone, in both
\* argument orders: None < numeric < Bytes < String < FrozenSet < Tuple.
C6_VariantRank ==
    (Compared /\ Rank(x) # Rank(y)) =>
        /\ ord = IntCmp(Rank(x), Rank(y))
        /\ rev = IntCmp(Rank(y), Rank(x))

C6_Witness ==
    /\ Compared
    /\ x.tag = "Tuple" /\ x.items = <<>>
    /\ y.tag = "FrozenSet" /\ Len(y.items) = MaxLen
    /\ ord = "Greater" /\ rev = "Less"

-----------------------------------------------------------------------------
(* Claims about Value::into_hashable (SpecHash).                            *)

RECURSIVE HoldsUnhashable(_)
HoldsUnhashable(v) ==
    \/ v.tag \in {"List", "Set", "Dict"}
    \/ v.tag = "Tuple" /\ \E k \in 1..Len(v.items) : HoldsUnhashable(v.items[k])

\* C7: into_hashable returns Ok exactly on the values that hold no List, Set
\* or Dict at any depth of Tuple nesting, and the ValueNotHashable error on
\* exactly the others; every call ends in one of the two.
C7_IntoHashableTotal ==
    hres # NoResult =>
        /\ hres.ok \in BOOLEAN
        /\ hres.ok <=> ~HoldsUnhashable(val)
        /\ hres.ok => (hres.v.ty = "HashableValue" /\ hres.v.tag = val.tag)
        /\ ~hres.ok => hres.err = "ValueNotHashable"

C7_Witness ==
    /\ hres # NoResult
    /\ ~hres.ok
    /\ val.tag = "Tuple"
    /\ \E k \in 1..Len(val.items) :
            /\ val.items[k].tag = "Tuple"
            /\ \A m \in 1..Len(val.items) : m # k => val.items[m].tag = "None"
            /\ \E m \in 1..Len(val.items[k].items) : val.items[k].items[m].tag = "List"

-----------------------------------------------------------------------------
(* Claims about Shared and SharedFrozen (SpecShared).                       *)

\* C8: every live Shared wrapper reads, through inner(), the payload its
\* lineage was built with, with the mutations made through the wrappers of
\* that lineage applied in order; the wrappers of one lineage are one
\* allocation and those of different lineages are different allocations.
C8_SharedAliasing ==
    /\ \A v \in LiveOf("Shared") : inner(v) = expect[v.lin].cell
    /\ \A g \in Live, h \in Live : (g.lin = h.lin) <=> (g.alloc = h.alloc)

C8_Witness ==
    \E v \in LiveOf("Shared"), k \in LiveOf("Shared") :
        /\ handles[v] >= 2
        /\ last.op = "mutate" /\ last.lin = v.lin
        /\ k.lin # v.lin
        /\ inner(k) # inner(v)

\* C9: a live SharedFrozen wrapper reads the payload it was constructed with,
\* whatever has happened since; one built from a Shared that has other
\* holders is another allocation than theirs.
C9_FrozenImmutable ==
    \A v \in LiveOf("Frozen") :
        /\ inner(v) = expect[v.lin].cell
        /\ \A g \in LiveOf("Shared") : g.alloc # v.alloc

C9_Witness ==
    \E v \in LiveOf("Frozen"), g \in LiveOf("Shared") :
        /\ expect[v.lin].src = g.lin
        /\ last.op = "mutate" /\ last.lin = g.lin
        /\ inner(g) # inner(v)

C11_ProvenanceToken ==
    /\ \A g \in Live, h \in Live :
          (provenance(g) = provenance(h)) <=> (g.lin = h.lin)
    /\ \A g \in Live : provenance(g) = g.lin

C11_Witness ==
    \E g \in Live, h \in Live :
        /\ handles[g] >= 2
        /\ h.lin # g.lin
        /\ inner(h) = inner(g)
        /\ provenance(h) # provenance(g)

\* C12: into_raw_or_cloned consumes one wrapper and returns the contents the
\* container had at the call, without panicking; a sole holder's allocation
\* is gone afterwards, and with other holders these still read the same
\* contents, as does every wrapper of every other allocation.
C12_IntoRawOrCloned ==
    last.op = "into_raw" =>
        /\ ~last.panic
        /\ last.value = last.was
        /\ heap[last.alloc].strong = last.strong - 1
        /\ last.strong = 1 => ~heap[last.alloc].live
        /\ last.strong > 1 =>
              \A h \in Live : h.lin = last.lin => inner(h) = last.was
        /\ \A h \in Live : inner(h) = expect[h.lin].cell

C12_Witness ==
    /\ last.op = "into_raw"
    /\ last.kind = "Shared"
    /\ last.strong >= 2
    /\ last.was # <<>>
    /\ \E h \in Live : h.lin = last.lin /\ inner(h) = last.value

-----------------------------------------------------------------------------
(* Claims about to_string_key (SpecKey).                                    *)

DigitValue(c) == CHOOSE d \in 0..9 : Digit(d) = c

RECURSIVE ParseDecimal(_)
ParseDecimal(str) ==
    IF str = <<>> THEN 0
    ELSE IF Head(str) = "-" THEN -ParseDecimal(Tail(str))
    ELSE 10 * ParseDecimal(SubSeq(str, 1, Len(str) - 1)) + DigitValue(str[Len(str)])

IsDecimal(str) ==
    /\ str # <<>>
    /\ \A k \in 1..Len(str) : str[k] \in {Digit(d) : d \in 0..9} \/ (k = 1 /\ str[k] = "-")
    /\ str # <<"-">>

\* C13: to_string_key gives a String's own text, "null" for None, the decimal
\* rendering of an I64 or Int, "True" / "False" for a Bool, a rendering with
\* a decimal point for an F64, and no key for Bytes, Tuple and FrozenSet.
C13_StringKey ==
    key.called =>
        CASE x.tag = "String" -> key.some /\ key.str = [k \in 1..Len(x.bytes) |-> Chr(x.bytes[k])]
          [] x.tag = "None" -> key.some /\ key.str = <<"n", "u", "l", "l">>
          [] x.tag \in {"I64", "Int"} ->
                key.some /\ IsDecimal(key.str) /\ ParseDecimal(key.str) = x.i
          [] x.tag = "Bool" ->
                key.some /\ key.str = (IF x.b THEN <<"T", "r", "u", "e">>
                                       ELSE <<"F", "a", "l", "s", "e">>)
          [] x.tag = "F64" -> key.some /\ \E k \in 1..Len(key.str) : key.str[k] = "."
          [] OTHER -> ~key.some

\* what holds of to_string_key: the same with the Bool case left out
C13_ExceptBool == (key.called /\ x.tag # "Bool") => C13_StringKey

-----------------------------------------------------------------------------
(* Claims about Opcode::try_from (SpecOpcode).                              *)

TableBytes == {e[2] : e \in Opcode}

\* C14: try_from of a byte of the opcode table is Ok with the opcode whose
\* wire byte it is; of any other byte it is the UnknownOpcode error carrying
\* the byte, not the Unsupported error of opcodes that are not implemented.
C14_UnknownOpcode ==
    opcode.called =>
        IF byte \in TableBytes
        THEN opcode.ok /\ <<opcode.op, byte>> \in Opcode
        ELSE ~opcode.ok /\ opcode.err = "UnknownOpcode" /\ opcode.arg = byte

\* what holds of try_from: Ok exactly on the table, with the right opcode
C14_TableRecognized ==
    opcode.called =>
        /\ opcode.ok <=> byte \in TableBytes
        /\ opcode.ok => <<opcode.op, byte>> \in Opcode
        /\ ~opcode.ok => opcode.arg = byte

-----------------------------------------------------------------------------
(* Claims about the ordered containers (SpecTree).                          *)

StoredKeys == IF ins.op = "dict" THEN [j \in 1..Len(dict) |-> dict[j].k] ELSE set

\* C15: the stored keys of a Set or Dict are strictly increasing in the
\* HashableValue order and no two of them compare Equal; an insert of a key
\* equal to a stored one leaves the number of entries as it was, the Dict
\* entry holding the value just inserted and the Set keeping the element it
\* had.
C15_OrderedKeys ==
    LET keys == StoredKeys
    IN  /\ \A i \in 1..Len(keys), j \in 1..Len(keys) :
              i < j => /\ cmp_with(keys[i], keys[j], "Inf") = "Less"
                       /\ cmp_with(keys[j], keys[i], "Inf") # "Equal"
        /\ ins.had =>
              /\ Len(keys) = ins.len
              /\ ins.op = "dict" =>
                    \E j \in 1..Len(dict) : hv_eq(ins.k, dict[j].k) /\ dict[j].v = ins.v
              /\ ins.op = "set" => \E j \in 1..Len(set) : set[j] = ins.old

\* what holds of the containers: C15 as long as no NaN key is stored
C15_WithoutNan ==
    (\A j \in 1..Len(StoredKeys) : ~IsNanValue(StoredKeys[j])) => C15_OrderedKeys

-----------------------------------------------------------------------------
(* Claims about the RawHashableValue order and equality (SpecRaw).          *)

RawCompared == rord # "-"

\* the place of a float in the chain -NaN < -inf < ... < -0.0 < +0.0 < ... <
\* +inf < +NaN
IeeePos(f) ==
    LET m == CASE f.cls = "nan" -> FloatMaxHalf + 2
               [] f.cls = "inf" -> FloatMaxHalf + 1
               [] OTHER -> f.mag
    IN  IF f.neg THEN -(m + 1) ELSE m

NumericRank(tag) ==
    CASE tag = "Bool" -> 1 [] tag = "I64" -> 2 [] tag = "Int" -> 3 [] tag = "F64" -> 4

\* C16: values of different variants are ordered by the variants alone, with
\* Bool < I64 < Int < F64 as four ranks; two F64 are ordered by the IEEE total
\* order; and the relation is a total order: reflexive, antisymmetric (the
\* two argument orders give reverse answers, Equal only for identical
\* values) and transitive.
C16_RawOrder ==
    RawCompared =>
        /\ ra.tag # rb.tag =>
              /\ rord # "Equal"
              /\ \A z \in RValues : z.tag = rb.tag => raw_cmp(ra, z) = rord
              /\ (IsNumeric(ra) /\ IsNumeric(rb)) =>
                    rord = IntCmp(NumericRank(ra.tag), NumericRank(rb.tag))
        /\ (ra.tag = "F64" /\ rb.tag = "F64") =>
              rord = IntCmp(IeeePos(ra.f), IeeePos(rb.f))
        /\ raw_cmp(ra, ra) = "Equal"
        /\ rrev = Reverse(rord)
        /\ rord = "Equal" => ra = rb
        /\ \A z \in RValues :
              /\ (rord = "Less" /\ raw_cmp(rb, z) = "Less") => raw_cmp(ra, z) = "Less"
              /\ (rord = "Equal" /\ raw_cmp(rb, z) = "Equal") => raw_cmp(ra, z) = "Equal"

C16_Witness ==
    /\ RawCompared
    /\ ra = RF64(FNan(TRUE))
    /\ rb = RF64(FInf(TRUE))
    /\ rord = "Less"
    /\ rrev = "Greater"

\* C20: the derived a == b of RawHashableValue holds exactly when
\* cmp(a, b) is Equal.
C20_EqOrdConsistent == RawCompared => (req.eq <=> rord = "Equal")

HoldsF64(v) == v.tag = "F64" \/ \E k \in 1..Len(v.items) : v.items[k].tag = "F64"

\* what holds of == and cmp: they agree on values that hold no float
C20_WithoutFloats == (~HoldsF64(ra) /\ ~HoldsF64(rb)) => C20_EqOrdConsistent

-----------------------------------------------------------------------------
(* Claims about the conversions between Value and the hashable forms        *)
(* (SpecTrip).                                                              *)

\* C17: into_hashable of x.into_value() is Ok(x), the same variant and
\* payload at every level, and into_raw_hashable of it is Ok; the expect in
\* into_raw_hashable never panics; and into_raw_hashable fails, with
\* ValueNotHashable, on exactly the Values on which into_hashable fails.
C17_RoundTrip ==
    hres # NoResult =>
        /\ rres # Panic
        /\ rres.ok <=> hres.ok
        /\ ~hres.ok => (hres.err = "ValueNotHashable" /\ rres.err = "ValueNotHashable")
        /\ val = into_value(x) => (hres = Ok(x) /\ rres.ok)

C17_Witness ==
    /\ hres = Ok(x)
    /\ rres.ok
    /\ val = into_value(x)
    /\ x.tag = "Tuple"
    /\ Len(x.items) = 2
    /\ x.items[1].tag = "Tuple" /\ x.items[1].items # <<>>
    /\ x.items[2].tag = "FrozenSet" /\ x.items[2].items # <<>>

-----------------------------------------------------------------------------
(* Claims about the raw order beside the public order (SpecEnc).            *)

OutsideCluster == {"None", "Bytes", "String", "Tuple", "FrozenSet"}

\* C19: for two HashableValues of different variants among None, Bytes,
\* String, Tuple and FrozenSet, the raw-hashable images compare as the values
\* themselves compare in the public order.
C19_RawAgreesWithPublic ==
    (/\ ord # "-"
     /\ x.tag # y.tag
     /\ x.tag \in OutsideCluster
     /\ y.tag \in OutsideCluster) => rord = ord

\* what holds of the two orders: they agree on those pairs other than a
\* Tuple against a FrozenSet
C19_ExceptTupleFrozenSet ==
    {x.tag, y.tag} # {"Tuple", "FrozenSet"} => C19_RawAgreesWithPublic

-----------------------------------------------------------------------------
(* Claims about the test generators (SpecGen).                              *)

\* C18: gen_bigint returns an integer below i64::MIN or above i64::MAX for
\* every draw and either sign, and the Int arm of gen_hvalue one above
\* i64::MAX.
C18_OutsideI64 ==
    /\ big.some => (big.n < I64Min \/ big.n > I64Max)
    /\ hint.some => hint.n > I64Max

\* what holds of the generators: the claim for every draw above i64::MIN + 1,
\* and for the negative offset of gen_bigint
C18_ExceptLowestDraws ==
    /\ (big.some /\ (sign \/ draw > I64Min + 1)) => (big.n < I64Min \/ big.n > I64Max)
    /\ (hint.some /\ draw > I64Min + 1) => hint.n > I64Max

-----------------------------------------------------------------------------
(* Claims about == on Value (SpecValueEq).                                  *)

\* two numeric Values of any variants that denote one number
SameNumber(a, b) ==
    /\ IsNumeric(a) /\ IsNumeric(b)
    /\ ~IsNanValue(a) /\ ~IsNanValue(b)
    /\ MathKey(a) = MathKey(b)

\* two Tuples or two Lists of equal length whose elements pairwise denote one
\* number
SameNumbersInside(a, b) ==
    /\ a.tag = b.tag /\ a.tag \in {"Tuple", "List"}
    /\ Len(a.items) = Len(b.items) /\ a.items # <<>>
    /\ \A k \in 1..Len(a.items) : SameNumber(a.items[k], b.items[k])

\* C21: for two Values on which into_hashable succeeds, a == b holds exactly
\* when a.into_hashable() == b.into_hashable(); and numeric Values of any
\* variants that denote the same number are equal as Values, at top level and
\* as the elements of a Tuple or a List.
C21_ValueEqAgrees ==
    veq.called =>
        /\ veq.ok => (veq.eq <=> veq.heq)
        /\ SameNumber(val, vb) => veq.eq
        /\ SameNumbersInside(val, vb) => veq.eq

\* what the derived == does give: operands that share no Rc and are == have
\* == projections
C21_EqImpliesHashableEq ==
    (veq.called /\ veq.ok /\ ~alias /\ veq.eq) => veq.heq

\* the same number under two variants is compared
C21_Witness ==
    /\ veq.called /\ veq.ok
    /\ SameNumber(val, vb) /\ val.tag # vb.tag

=============================================================================
